---- MODULE Spec2Model ----
(***************************************************************************)
(* A model of src/pyodbcmodule.cpp: the process-wide ODBC environment      *)
(* handle (henv) and its pooling attribute, the connection-string builder  *)
(* of mod_connect, the data-source enumeration of mod_datasources, and the  *)
(* start-up of the module.                                                 *)
(*                                                                         *)
(* Spec      : several host threads calling connect / dataSources and      *)
(*             rebinding the module attribute "pooling", serialised by the *)
(*             interpreter lock except where the code releases it.         *)
(* SpecBuild : one connect call on a cold process, its arguments drawn     *)
(*             from a wide set of positional / keyword combinations.       *)
(* SpecStartup : the import of the module (PyInit_pyodbc): locale          *)
(*             characters and the registration of the exception classes.   *)
(* SpecDs    : threads calling dataSources on a driver manager with none,  *)
(*             one or two data sources configured.                         *)
(***************************************************************************)
EXTENDS Integers, Sequences, FiniteSets, TLC

\* ------------------------------------------------------------------ bounds
NThreads == 2
MaxCalls == 2
MaxKw == 2

Threads == 1..NThreads
NoThread == 0

\* ------------------------------------------------------- program constants
SQL_NULL_HANDLE == 0

\* keywordmaps[]: DB API keyword -> ODBC keyword.
keywordmaps ==
    << [oldname |-> "user",     newname |-> "uid"],
       [oldname |-> "password", newname |-> "pwd"],
       [oldname |-> "host",     newname |-> "server"] >>

autocommitU == "autocommit"
timeoutU == "timeout"
equalsU == "="
semiU == ";"

\* ------------------------------------------------------------ host values
\* A host-language object as the builder sees it: its type, its text (for a
\* str) and its integer value (for an int or a bool, which is an int).
PyStr(s) == [tp |-> "str", s |-> s, n |-> 0]
PyBool(b) == [tp |-> "bool", s |-> "", n |-> IF b THEN 1 ELSE 0]
PyInt(n) == [tp |-> "int", s |-> "", n |-> n]
PyNone == [tp |-> "none", s |-> "", n |-> 0]
\* An int too large for a C long.
PyBigInt == [tp |-> "bigint", s |-> "", n |-> 0]

PyUnicode_Check(v) == v.tp = "str"

\* PyObject_IsTrue: 1 or 0.
PyObject_IsTrue(v) ==
    CASE v.tp = "str" -> IF Len(v.s) > 0 THEN 1 ELSE 0
      [] v.tp \in {"bool", "int"} -> IF v.n # 0 THEN 1 ELSE 0
      [] v.tp = "bigint" -> 1
      [] OTHER -> 0

\* PyLong_AsLong: the value of an int (or bool); an error is left pending for
\* every other object: an OverflowError for an int that does not fit a long, a
\* TypeError for what is no integer.
PyLong_AsLong(v) ==
    IF v.tp \in {"bool", "int"} THEN [ok |-> TRUE, val |-> v.n, err |-> ""]
    ELSE IF v.tp = "bigint" THEN [ok |-> FALSE, val |-> -1, err |-> "TimeoutOverflow"]
    ELSE [ok |-> FALSE, val |-> -1, err |-> "TimeoutNotInteger"]

\* The Unicode accumulator (wrapper.h): Size() is the length of the text held,
\* Append() concatenates.
Unicode_Size(cstring) == Len(cstring)
Unicode_Append(cstring, piece) == cstring \o piece

\* --------------------------------------------- the connection-string builder
\* The locals of mod_connect: cstring, fAutoCommit, timeout; err is the failure
\* the call returns with ("" while none); frags records the (key, value) pairs
\* handed to Append at the end of the keyword loop's body.
InitLocals == [err |-> "", cstring |-> "", fAutoCommit |-> 0, timeout |-> 0, frags |-> << >>]

Fail(st, e) == [st EXCEPT !.err = e]

\* The bug of scanning one entry too few of keywordmaps.
MapKeyword_ShortLoop(key) ==
    LET hits == {i \in 1..(Len(keywordmaps) - 1) : keywordmaps[i].oldname = key}
    IN  IF hits = {} THEN key
        ELSE keywordmaps[CHOOSE i \in hits : \A j \in hits : i <= j].newname

\* for (i...) if (key == keywordmaps[i].oldname) { key = newnameObject; break; }
MapKeyword(key) ==
    LET hits == {i \in 1..Len(keywordmaps) : keywordmaps[i].oldname = key}
    IN  IF hits = {} THEN key
        ELSE keywordmaps[CHOOSE i \in hits : \A j \in hits : i <= j].newname

\* The bug of appending the separator without looking at cstring.Size().
AppendFragment_AlwaysSemi(st, key, value) ==
    [st EXCEPT !.cstring = Unicode_Append(Unicode_Append(Unicode_Append(Unicode_Append(st.cstring, semiU), key), equalsU), value.s),
               !.frags = st.frags \o << [key |-> key, value |-> value.s] >>]

\* if (cstring.Size() && !cstring.Append(semiU)) return 0;
\* if (!cstring.Append(key) || !cstring.Append(equalsU) || !cstring.Append(value)) return 0;
AppendFragment(st, key, value) ==
    LET c0 == IF Unicode_Size(st.cstring) # 0 THEN Unicode_Append(st.cstring, semiU) ELSE st.cstring
    IN  [st EXCEPT !.cstring = Unicode_Append(Unicode_Append(Unicode_Append(c0, key), equalsU), value.s),
                   !.frags = st.frags \o << [key |-> key, value |-> value.s] >>]

\* The bug of a missing 'continue' after the autocommit branch: the keyword
\* falls through to the code that appends it.
ProcessKeyword_NoContinue(st, key, value) ==
    IF key = timeoutU
    THEN LET r == PyLong_AsLong(value)
         IN  IF r.ok THEN [st EXCEPT !.timeout = r.val] ELSE Fail(st, r.err)
    ELSE LET s1 == IF key = autocommitU
                   THEN [st EXCEPT !.fAutoCommit = PyObject_IsTrue(value)]
                   ELSE st
         IN  IF ~PyUnicode_Check(value) THEN Fail(s1, "ValueNotString")
             ELSE AppendFragment(s1, MapKeyword(key), value)

\* One pass of the body of while (PyDict_Next(kwargs, &pos, &key, &value)).
ProcessKeyword(st, key, value) ==
    IF key = autocommitU
    THEN [st EXCEPT !.fAutoCommit = PyObject_IsTrue(value)]
    ELSE IF key = timeoutU
    THEN LET r == PyLong_AsLong(value)
         IN  IF r.ok THEN [st EXCEPT !.timeout = r.val] ELSE Fail(st, r.err)
    ELSE IF ~PyUnicode_Check(value) THEN Fail(st, "ValueNotString")
    ELSE AppendFragment(st, MapKeyword(key), value)

\* The keyword loop over kwargs, given as the sequence of entries in the order
\* PyDict_Next yields them; a failure returns from mod_connect at once.
RECURSIVE KeywordLoop(_, _, _)
KeywordLoop(st, kwargs, pos) ==
    IF pos > Len(kwargs) \/ st.err # "" THEN st
    ELSE KeywordLoop(ProcessKeyword(st, kwargs[pos].key, kwargs[pos].value), kwargs, pos + 1)

\* The bug of leaving out the final cstring.Size() == 0 test.
BuildRequest_NoEmptyCheck(args, kwargs) ==
    LET size == Len(args)
    IN  IF size > 1 THEN Fail(InitLocals, "TooManyArguments")
        ELSE IF size = 1 /\ ~PyUnicode_Check(args[1]) THEN Fail(InitLocals, "Arg1NotString")
        ELSE LET s0 == IF size = 1
                       THEN [InitLocals EXCEPT !.cstring = Unicode_Append("", args[1].s)]
                       ELSE InitLocals
             IN  IF Len(kwargs) > 0 THEN KeywordLoop(s0, kwargs, 1) ELSE s0

\* The bug of testing the argument count after the keyword loop.
BuildRequest_CountLast(args, kwargs) ==
    LET size == Len(args)
        s0 == IF size >= 1 /\ PyUnicode_Check(args[1])
              THEN [InitLocals EXCEPT !.cstring = Unicode_Append("", args[1].s)]
              ELSE InitLocals
        s1 == IF Len(kwargs) > 0 THEN KeywordLoop(s0, kwargs, 1) ELSE s0
    IN  IF s1.err # "" THEN s1
        ELSE IF size > 1 THEN Fail(s1, "TooManyArguments")
        ELSE IF size = 1 /\ ~PyUnicode_Check(args[1]) THEN Fail(s1, "Arg1NotString")
        ELSE IF Unicode_Size(s1.cstring) = 0 THEN Fail(s1, "NoConnectionInfo")
        ELSE s1

\* mod_connect up to (and with) the "no connection information" test.
BuildRequest(args, kwargs) ==
    LET size == Len(args)
    IN  IF size > 1 THEN Fail(InitLocals, "TooManyArguments")
        ELSE IF size = 1 /\ ~PyUnicode_Check(args[1]) THEN Fail(InitLocals, "Arg1NotString")
        ELSE LET s0 == IF size = 1
                       THEN [InitLocals EXCEPT !.cstring = Unicode_Append("", args[1].s)]
                       ELSE InitLocals
                 s1 == IF Len(kwargs) > 0 THEN KeywordLoop(s0, kwargs, 1) ELSE s0
             IN  IF s1.err # "" THEN s1
                 ELSE IF Unicode_Size(s1.cstring) = 0 THEN Fail(s1, "NoConnectionInfo")
                 ELSE s1

\* The bug of reporting the empty request with pyodbc's own ProgrammingError.
BuilderError_Taxonomy(err) ==
    IF err = "NoConnectionInfo"
    THEN [cls |-> "ProgrammingError", text |-> "no connection information was passed"]
    ELSE [cls |-> "TypeError", text |-> err]

\* The exception each failure of mod_connect's builder leaves: PyErr_SetString,
\* PyErr_Format and RaiseError are all given PyExc_TypeError; a failed
\* PyLong_AsLong leaves its own TypeError or OverflowError.
BuilderError(err) ==
    CASE err = "TooManyArguments" ->
           [cls |-> "TypeError", text |-> "function takes at most 1 non-keyword argument"]
      [] err = "Arg1NotString" ->
           [cls |-> "TypeError", text |-> "argument 1 must be a string"]
      [] err = "ValueNotString" ->
           [cls |-> "TypeError", text |-> "The value for keyword '%S' is not a string'"]
      [] err = "TimeoutNotInteger" ->
           [cls |-> "TypeError", text |-> "an integer is required"]
      [] err = "TimeoutOverflow" ->
           [cls |-> "OverflowError", text |-> "Python int too large to convert to C long"]
      [] err = "NoConnectionInfo" ->
           [cls |-> "TypeError", text |-> "no connection information was passed"]

\* RaiseErrorFromHandle(szFunction, hdbc, hstmt) (errors.h): a failure of the
\* DatabaseError family carrying the diagnostic text the driver manager holds;
\* with hdbc and hstmt null the diagnostic is the environment handle's.
RaiseErrorFromHandle(szFunction, diag) == [cls |-> "DatabaseError", text |-> diag]

\* ------------------------------------------------------------------ inputs
\* What a call of connect is given: the positional tuple and the keyword dict.
NoArgs == [args |-> << >>, kwargs |-> << >>]

\* The calls of connect made in Spec.
SpecInputs ==
    { NoArgs,
      [args |-> << >>,
       kwargs |-> << [key |-> "user", value |-> PyStr("alice")],
                     [key |-> autocommitU, value |-> PyBool(TRUE)] >>] }

\* The calls of connect made in SpecBuild.
ArgTuples ==
    { << >>, << PyStr("DSN=x") >>, << PyStr("") >>, << PyNone >>,
      << PyStr("DSN=x"), PyStr("DSN=y") >> }
KwKeys == {"user", "password", "host", "User", "driver", "ansi", autocommitU, timeoutU}
KwValues == {PyStr("alice"), PyStr(""), PyBool(TRUE), PyInt(5), PyBigInt, PyNone}
KwEntries == [key : KwKeys, value : KwValues]
\* A keyword dict holds each key once.
KwSeqs ==
    UNION { {s \in [1..n -> KwEntries] : \A i, j \in 1..n : i # j => s[i].key # s[j].key}
            : n \in 0..MaxKw }
BuildInputs == [args : ArgTuples, kwargs : KwSeqs]

\* The values the host program may bind to the module attribute "pooling";
\* "Absent" is the attribute deleted.
PoolingValues == {"True", "False", "Other", "Absent"}

\* A driver manager with one data source configured.
OneSource == << [name |-> "A", desc |-> "first"] >>

\* The driver manager's configurations in SpecDs: none, one or two sources.
SourceConfigs ==
    { << >>, OneSource,
      << [name |-> "A", desc |-> "first"], [name |-> "B", desc |-> "second"] >> }

\* ------------------------------------------------------------------- state
VARIABLES
    pooling,        \* the module attribute "pooling"
    henv,           \* HENV henv
    allocCount,     \* environment handles the driver manager has allocated
    dmPoolingSets,  \* times SQL_ATTR_CONNECTION_POOLING was set on the driver manager
    versionSet,     \* SQL_ATTR_ODBC_VERSION is set on henv
    poolingReads,   \* times AllocateEnv has read the attribute "pooling"
    policyRead,     \* the value AllocateEnv read ("unread" before)
    proc,           \* "running", "fatal" (Py_FatalError) or "crashed"
    gil,            \* the thread holding the interpreter lock, or NoThread
    nCalls,         \* module calls started
    pc,             \* each thread's position
    op,             \* each thread's current call: "connect", "dataSources", "none"
    args,           \* each thread's arguments of connect
    req,            \* each thread's locals of mod_connect
    bPooling,       \* each thread's local of AllocateEnv
    envRet,         \* each thread's last status of a native call of AllocateEnv
    hseen,          \* the handle each thread's call handed on (0 while none)
    conn,           \* what each thread's call handed to Connection_New
    result,         \* what each thread's call returned ("none" while running)
    dsns,           \* the data sources the driver manager has configured
    dmCursor,       \* the driver manager's data-source enumeration position
    ret,            \* each thread's SQLRETURN of SQLDataSourcesW
    buf,            \* each thread's szDSN / szDesc
    dsDict,         \* each thread's result dict of mod_datasources
    nDirection,     \* each thread's local nDirection
    fetchLog,       \* each thread's calls of SQLDataSourcesW: direction passed, answer
    raised,         \* the exception each thread's call raised (NoExc while none)
    ipc,            \* the position of PyInit_pyodbc
    iExc,           \* the index i of the loop of CreateExceptions
    locale,         \* what the host's locale module answers
    chDecimal,      \* SQLWCHAR chDecimal
    chGroupSeparator,   \* SQLWCHAR chGroupSeparator
    chCurrencySymbol,   \* SQLWCHAR chCurrencySymbol
    pending,        \* the exception pending in the interpreter ("none" if none)
    excPtr,         \* the ten globals Error, Warning, ...: the class held, or NullPtr
    excBase,        \* the base each class was constructed with
    excRefs,        \* the references this module owns on each class
    ns,             \* the names registered in the module's namespace
    initRet         \* what PyInit_pyodbc returned ("none" while running)

envVars == << henv, allocCount, dmPoolingSets, versionSet, poolingReads, policyRead >>
dsVars == << dmCursor, ret, buf, dsDict, nDirection, fetchLog >>
initVars == << ipc, iExc, locale, chDecimal, chGroupSeparator, chCurrencySymbol,
              pending, excPtr, excBase, excRefs, ns, initRet >>
runVars == << pooling, henv, allocCount, dmPoolingSets, versionSet, poolingReads, policyRead,
             proc, gil, nCalls, pc, op, args, req, bPooling, envRet, hseen, conn,
             result, dsns, dmCursor, ret, buf, dsDict, nDirection, fetchLog, raised >>
vars == << pooling, henv, allocCount, dmPoolingSets, versionSet, poolingReads, policyRead,
           proc, gil, nCalls, pc, op, args, req, bPooling, envRet, hseen, conn,
           result, dsns, dmCursor, ret, buf, dsDict, nDirection, fetchLog, raised,
           ipc, iExc, locale, chDecimal, chGroupSeparator, chCurrencySymbol,
           pending, excPtr, excBase, excRefs, ns, initRet >>

NoConn == [cstring |-> "", autocommit |-> FALSE, timeout |-> 0, henv |-> SQL_NULL_HANDLE, made |-> FALSE]
NoBuf == [name |-> "", desc |-> ""]
NoExc == [cls |-> "none", text |-> ""]

\* ---------------------------------------------------------------- start-up
NullPtr == "NULL"

\* The bug of listing DataError before its parent DatabaseError.
aExcInfos_ChildFirst ==
    << [szName |-> "Error", parent |-> "Exception"],
       [szName |-> "Warning", parent |-> "Exception"],
       [szName |-> "InterfaceError", parent |-> "Error"],
       [szName |-> "DataError", parent |-> "DatabaseError"],
       [szName |-> "DatabaseError", parent |-> "Error"],
       [szName |-> "OperationalError", parent |-> "DatabaseError"],
       [szName |-> "IntegrityError", parent |-> "DatabaseError"],
       [szName |-> "InternalError", parent |-> "DatabaseError"],
       [szName |-> "ProgrammingError", parent |-> "DatabaseError"],
       [szName |-> "NotSupportedError", parent |-> "DatabaseError"] >>

\* static ExcInfo aExcInfos[]: MAKEEXCINFO(name, parent, doc).
aExcInfos ==
    << [szName |-> "Error", parent |-> "Exception"],
       [szName |-> "Warning", parent |-> "Exception"],
       [szName |-> "InterfaceError", parent |-> "Error"],
       [szName |-> "DatabaseError", parent |-> "Error"],
       [szName |-> "DataError", parent |-> "DatabaseError"],
       [szName |-> "OperationalError", parent |-> "DatabaseError"],
       [szName |-> "IntegrityError", parent |-> "DatabaseError"],
       [szName |-> "InternalError", parent |-> "DatabaseError"],
       [szName |-> "ProgrammingError", parent |-> "DatabaseError"],
       [szName |-> "NotSupportedError", parent |-> "DatabaseError"] >>

\* The ten globals PyObject* Error, Warning, ...
ExcNames ==
    {"Error", "Warning", "InterfaceError", "DatabaseError", "InternalError",
     "OperationalError", "ProgrammingError", "IntegrityError", "DataError",
     "NotSupportedError"}

\* A value of the dict localeconv() returns: the key is missing, the value is
\* no text, or it is a text, given as the sequence of its characters.
LcAbsent == [tp |-> "absent", chars |-> << >>]
LcNonText == [tp |-> "none", chars |-> << >>]
LcText(cs) == [tp |-> "str", chars |-> cs]

\* The null character.
NUL == "NUL"

\* The locale facility is missing, localeconv() raises, or it answers.
LocaleUnavailable(how) ==
    [status |-> how, decimal_point |-> LcAbsent, thousands_sep |-> LcAbsent,
     currency_symbol |-> LcAbsent]

\* The "C" locale: decimal point '.', no thousands separator, no currency symbol.
CLocale ==
    [status |-> "ok", decimal_point |-> LcText(<< "." >>), thousands_sep |-> LcText(<< >>),
     currency_symbol |-> LcText(<< >>)]

\* value && PyUnicode_Check(value) && PyUnicode_GET_SIZE(value) == 1
IsOneChar(value) == value.tp = "str" /\ Len(value.chars) = 1

\* The bug of returning from init_locale_info with the failure still pending.
init_locale_info_NoClear(loc, ch) ==
    IF loc.status # "ok"
    THEN [ch EXCEPT !.pending = "ImportError"]
    ELSE LET dec == IF IsOneChar(loc.decimal_point) THEN loc.decimal_point.chars[1] ELSE ch.chDecimal
             grp0 == IF IsOneChar(loc.thousands_sep) THEN loc.thousands_sep.chars[1]
                     ELSE ch.chGroupSeparator
             grp == IF IsOneChar(loc.thousands_sep) /\ grp0 = NUL
                    THEN (IF dec = "," THEN "." ELSE ",")
                    ELSE grp0
             cur == IF IsOneChar(loc.currency_symbol) THEN loc.currency_symbol.chars[1]
                    ELSE ch.chCurrencySymbol
         IN  [chDecimal |-> dec, chGroupSeparator |-> grp, chCurrencySymbol |-> cur,
              pending |-> "none"]

\* init_locale_info(): ch holds the three characters and the pending exception
\* at entry; the result holds them at return.
init_locale_info(loc, ch) ==
    IF loc.status # "ok"
    THEN [ch EXCEPT !.pending = "none"]
    ELSE LET dec == IF IsOneChar(loc.decimal_point) THEN loc.decimal_point.chars[1] ELSE ch.chDecimal
             grp0 == IF IsOneChar(loc.thousands_sep) THEN loc.thousands_sep.chars[1]
                     ELSE ch.chGroupSeparator
             grp == IF IsOneChar(loc.thousands_sep) /\ grp0 = NUL
                    THEN (IF dec = "," THEN "." ELSE ",")
                    ELSE grp0
             cur == IF IsOneChar(loc.currency_symbol) THEN loc.currency_symbol.chars[1]
                    ELSE ch.chCurrencySymbol
         IN  [chDecimal |-> dec, chGroupSeparator |-> grp, chCurrencySymbol |-> cur,
              pending |-> "none"]

\* The state PyInit_pyodbc leaves when it returns the module under the "C"
\* locale.
StartupDone ==
    /\ ipc = "done"
    /\ iExc = Len(aExcInfos) + 1
    /\ locale = CLocale
    /\ chDecimal = "."
    /\ chGroupSeparator = ","
    /\ chCurrencySymbol = "$"
    /\ pending = "none"
    /\ excPtr = [n \in ExcNames |-> n]
    /\ excBase = [n \in ExcNames |->
                    aExcInfos[CHOOSE i \in 1..Len(aExcInfos) : aExcInfos[i].szName = n].parent]
    /\ excRefs = [n \in ExcNames |-> 1]
    /\ ns = ExcNames
    /\ initRet = "module"

\* The run-time state of a process that has made no call: henv =
\* SQL_NULL_HANDLE, pooling = Py_True.
ColdProcess ==
    /\ pooling = "True"
    /\ henv = SQL_NULL_HANDLE
    /\ allocCount = 0
    /\ dmPoolingSets = 0
    /\ versionSet = FALSE
    /\ poolingReads = 0
    /\ policyRead = "unread"
    /\ proc = "running"
    /\ gil = NoThread
    /\ nCalls = 0
    /\ pc = [t \in Threads |-> "idle"]
    /\ op = [t \in Threads |-> "none"]
    /\ args = [t \in Threads |-> NoArgs]
    /\ req = [t \in Threads |-> InitLocals]
    /\ bPooling = [t \in Threads |-> FALSE]
    /\ envRet = [t \in Threads |-> "none"]
    /\ hseen = [t \in Threads |-> SQL_NULL_HANDLE]
    /\ conn = [t \in Threads |-> NoConn]
    /\ result = [t \in Threads |-> "none"]
    /\ dmCursor = 0
    /\ ret = [t \in Threads |-> "none"]
    /\ buf = [t \in Threads |-> NoBuf]
    /\ dsDict = [t \in Threads |-> {}]
    /\ nDirection = [t \in Threads |-> "none"]
    /\ fetchLog = [t \in Threads |-> << >>]
    /\ raised = [t \in Threads |-> NoExc]

\* The module has been imported; no call yet.
Init == ColdProcess /\ dsns = OneSource /\ StartupDone

\* A thread runs module code while it holds the interpreter lock; it takes the
\* lock when it is free.
CanRun(t) == proc = "running" /\ gil \in {NoThread, t}

\* The threads are numbered in the order of their first calls: thread t makes
\* its first call after every thread of a lower number has made one.
FirstCallsInOrder(t) == \A u \in Threads : u < t => op[u] # "none"

\* A call starts with fresh locals.
FreshLocals(t) ==
    /\ req' = [req EXCEPT ![t] = InitLocals]
    /\ bPooling' = [bPooling EXCEPT ![t] = FALSE]
    /\ envRet' = [envRet EXCEPT ![t] = "none"]
    /\ hseen' = [hseen EXCEPT ![t] = SQL_NULL_HANDLE]
    /\ conn' = [conn EXCEPT ![t] = NoConn]
    /\ result' = [result EXCEPT ![t] = "none"]
    /\ ret' = [ret EXCEPT ![t] = "none"]
    /\ buf' = [buf EXCEPT ![t] = NoBuf]
    /\ dsDict' = [dsDict EXCEPT ![t] = {}]
    /\ nDirection' = [nDirection EXCEPT ![t] = "none"]
    /\ fetchLog' = [fetchLog EXCEPT ![t] = << >>]
    /\ raised' = [raised EXCEPT ![t] = NoExc]

\* The host program rebinds or deletes pyodbc.pooling.
SetPooling(v) ==
    /\ proc = "running"
    /\ gil = NoThread
    /\ pooling # v
    /\ pooling' = v
    /\ UNCHANGED << dsns, initVars, envVars, proc, gil, nCalls, pc, op, args, req, bPooling, envRet,
                    hseen, conn, result, raised, dsVars >>

\* ---------------------------------------------------------------- connect
\* A thread calls pyodbc.connect(*args, **kwargs).
CallConnect(t) ==
    /\ CanRun(t)
    /\ pc[t] \in {"idle", "done"}
    /\ nCalls < MaxCalls
    /\ FirstCallsInOrder(t)
    /\ nCalls' = nCalls + 1
    /\ \E a \in SpecInputs : args' = [args EXCEPT ![t] = a]
    /\ op' = [op EXCEPT ![t] = "connect"]
    /\ pc' = [pc EXCEPT ![t] = "build"]
    /\ gil' = t
    /\ FreshLocals(t)
    /\ UNCHANGED << pooling, dsns, initVars, envVars, proc, dmCursor >>

\* mod_connect from its entry to the "no connection information" test.
ConnectBuild(t) ==
    /\ CanRun(t)
    /\ pc[t] = "build"
    /\ LET r == BuildRequest(args[t].args, args[t].kwargs)
       IN  /\ req' = [req EXCEPT ![t] = r]
           /\ IF r.err # ""
              THEN /\ result' = [result EXCEPT ![t] = r.err]
                   /\ raised' = [raised EXCEPT ![t] = BuilderError(r.err)]
                   /\ pc' = [pc EXCEPT ![t] = "done"]
                   /\ gil' = NoThread
              ELSE /\ pc' = [pc EXCEPT ![t] = "ensure"]
                   /\ gil' = t
                   /\ UNCHANGED << result, raised >>
    /\ UNCHANGED << pooling, dsns, initVars, envVars, proc, nCalls, op, args, bPooling, envRet,
                    hseen, conn, dsVars >>

\* The bug of calling AllocateEnv whether or not henv is set.
ConnectEnsure_NoTest(t) ==
    /\ CanRun(t)
    /\ pc[t] = "ensure"
    /\ pc' = [pc EXCEPT ![t] = "env_read"]
    /\ gil' = t
    /\ UNCHANGED << pooling, dsns, initVars, envVars, proc, nCalls, op, args, req, bPooling, envRet,
                    hseen, conn, result, raised, dsVars >>

\* The bug of going on to Connection_New without AllocateEnv.
ConnectEnsure_NoAllocate(t) ==
    /\ CanRun(t)
    /\ pc[t] = "ensure"
    /\ pc' = [pc EXCEPT ![t] = "construct"]
    /\ gil' = t
    /\ UNCHANGED << pooling, dsns, initVars, envVars, proc, nCalls, op, args, req, bPooling, envRet,
                    hseen, conn, result, raised, dsVars >>

\* if (henv == SQL_NULL_HANDLE) { if (!AllocateEnv()) return 0; }
ConnectEnsure(t) ==
    /\ CanRun(t)
    /\ pc[t] = "ensure"
    /\ pc' = [pc EXCEPT ![t] = IF henv = SQL_NULL_HANDLE THEN "env_read" ELSE "construct"]
    /\ gil' = t
    /\ UNCHANGED << pooling, dsns, initVars, envVars, proc, nCalls, op, args, req, bPooling, envRet,
                    hseen, conn, result, raised, dsVars >>

\* return (PyObject*)Connection_New(cstring, fAutoCommit != 0, timeout): the
\* constructor, which works under henv, returns a connection or raises.
ConnectionNew(t) ==
    /\ CanRun(t)
    /\ pc[t] = "construct"
    /\ conn' = [conn EXCEPT ![t] = [cstring |-> req[t].cstring,
                                    autocommit |-> (req[t].fAutoCommit # 0),
                                    timeout |-> req[t].timeout,
                                    henv |-> henv,
                                    made |-> TRUE]]
    /\ hseen' = [hseen EXCEPT ![t] = henv]
    /\ \E r \in {"Connection", "DatabaseError"} :
          /\ result' = [result EXCEPT ![t] = r]
          /\ raised' = [raised EXCEPT ![t] =
                           IF r = "Connection" THEN NoExc
                           ELSE [cls |-> "DatabaseError", text |-> "SQLDriverConnect"]]
    /\ pc' = [pc EXCEPT ![t] = "done"]
    /\ gil' = NoThread
    /\ UNCHANGED << pooling, dsns, initVars, envVars, proc, nCalls, op, args, req, bPooling, envRet, dsVars >>

\* ------------------------------------------------------------ AllocateEnv
\* The bug of reporting a failed native call as an ordinary exception.
FatalError_Raise(t) ==
    /\ proc' = proc
    /\ pc' = [pc EXCEPT ![t] = "done"]
    /\ gil' = NoThread
    /\ result' = [result EXCEPT ![t] = "RuntimeError"]
    /\ raised' = [raised EXCEPT ![t] = [cls |-> "RuntimeError", text |-> "AllocateEnv"]]

\* Py_FatalError(...): the process aborts inside the call.
FatalError(t) ==
    /\ proc' = "fatal"
    /\ UNCHANGED << pc, gil, result, raised >>

\* PyObject_GetAttrString(pModule, "pooling"); bPooling = pooling == Py_True;
\* Py_DECREF(pooling).  With the attribute deleted the pointer is null and
\* Py_DECREF dereferences it: the process crashes, or goes on with bPooling
\* false.
EnvReadPooling(t) ==
    /\ CanRun(t)
    /\ pc[t] = "env_read"
    /\ poolingReads' = poolingReads + 1
    /\ policyRead' = pooling
    /\ bPooling' = [bPooling EXCEPT ![t] = (pooling = "True")]
    /\ IF pooling = "Absent"
       THEN \/ proc' = "crashed" /\ UNCHANGED << pc, gil >>
            \/ proc' = proc /\ pc' = [pc EXCEPT ![t] = "env_setpool"] /\ gil' = t
       ELSE proc' = proc /\ pc' = [pc EXCEPT ![t] = "env_setpool"] /\ gil' = t
    /\ UNCHANGED << pooling, dsns, initVars, henv, allocCount, dmPoolingSets, versionSet, nCalls,
                    op, args, req, envRet, hseen, conn, result, raised, dsVars >>

\* The bug of setting the pooling attribute without testing bPooling.
EnvSetPooling_NoTest(t) ==
    /\ CanRun(t)
    /\ pc[t] = "env_setpool"
    /\ \E ok \in BOOLEAN :
          IF ok
          THEN /\ dmPoolingSets' = dmPoolingSets + 1
               /\ envRet' = [envRet EXCEPT ![t] = "succeeded"]
               /\ pc' = [pc EXCEPT ![t] = "env_alloc"]
               /\ gil' = t
               /\ UNCHANGED << proc, result, raised >>
          ELSE /\ envRet' = [envRet EXCEPT ![t] = "failed"]
               /\ FatalError(t)
               /\ UNCHANGED dmPoolingSets
    /\ UNCHANGED << pooling, dsns, initVars, henv, allocCount, versionSet, poolingReads, policyRead, nCalls,
                    op, args, req, bPooling, hseen, conn, dsVars >>

\* The bug of releasing the interpreter lock around the native call
\* (Py_BEGIN_ALLOW_THREADS ... Py_END_ALLOW_THREADS inside AllocateEnv).
EnvSetPooling_AllowThreads(t) ==
    /\ CanRun(t)
    /\ pc[t] = "env_setpool"
    /\ IF bPooling[t]
       THEN /\ \E ok \in BOOLEAN :
                  IF ok
                  THEN /\ dmPoolingSets' = dmPoolingSets + 1
                       /\ envRet' = [envRet EXCEPT ![t] = "succeeded"]
                       /\ pc' = [pc EXCEPT ![t] = "env_alloc"]
                       /\ gil' = NoThread
                       /\ UNCHANGED << proc, result, raised >>
                  ELSE /\ envRet' = [envRet EXCEPT ![t] = "failed"]
                       /\ FatalError(t)
                       /\ UNCHANGED dmPoolingSets
       ELSE /\ pc' = [pc EXCEPT ![t] = "env_alloc"]
            /\ gil' = NoThread
            /\ UNCHANGED << dmPoolingSets, envRet, proc, result, raised >>
    /\ UNCHANGED << pooling, dsns, initVars, henv, allocCount, versionSet, poolingReads, policyRead, nCalls,
                    op, args, req, bPooling, hseen, conn, dsVars >>

\* if (bPooling) { if (!SQL_SUCCEEDED(SQLSetEnvAttr(SQL_NULL_HANDLE,
\* SQL_ATTR_CONNECTION_POOLING, SQL_CP_ONE_PER_HENV, ...))) Py_FatalError(...); }
EnvSetPooling(t) ==
    /\ CanRun(t)
    /\ pc[t] = "env_setpool"
    /\ IF bPooling[t]
       THEN /\ \E ok \in BOOLEAN :
                  IF ok
                  THEN /\ dmPoolingSets' = dmPoolingSets + 1
                       /\ envRet' = [envRet EXCEPT ![t] = "succeeded"]
                       /\ pc' = [pc EXCEPT ![t] = "env_alloc"]
                       /\ gil' = t
                       /\ UNCHANGED << proc, result, raised >>
                  ELSE /\ envRet' = [envRet EXCEPT ![t] = "failed"]
                       /\ FatalError(t)
                       /\ UNCHANGED dmPoolingSets
       ELSE /\ pc' = [pc EXCEPT ![t] = "env_alloc"]
            /\ gil' = t
            /\ UNCHANGED << dmPoolingSets, envRet, proc, result, raised >>
    /\ UNCHANGED << pooling, dsns, initVars, henv, allocCount, versionSet, poolingReads, policyRead, nCalls,
                    op, args, req, bPooling, hseen, conn, dsVars >>

\* The bug of returning true from AllocateEnv right after SQLAllocHandle,
\* without setting SQL_ATTR_ODBC_VERSION.
EnvAllocHandle_SkipVersion(t) ==
    /\ CanRun(t)
    /\ pc[t] = "env_alloc"
    /\ \E ok \in BOOLEAN :
          IF ok
          THEN /\ allocCount' = allocCount + 1
               /\ henv' = allocCount + 1
               /\ versionSet' = FALSE
               /\ envRet' = [envRet EXCEPT ![t] = "succeeded"]
               /\ pc' = [pc EXCEPT ![t] = IF op[t] = "connect" THEN "construct" ELSE "ds_begin"]
               /\ gil' = t
               /\ UNCHANGED << proc, result, raised >>
          ELSE /\ henv' = SQL_NULL_HANDLE
               /\ envRet' = [envRet EXCEPT ![t] = "failed"]
               /\ FatalError(t)
               /\ UNCHANGED << allocCount, versionSet >>
    /\ UNCHANGED << pooling, dsns, initVars, dmPoolingSets, poolingReads, policyRead, nCalls,
                    op, args, req, bPooling, hseen, conn, dsVars >>

\* if (!SQL_SUCCEEDED(SQLAllocHandle(SQL_HANDLE_ENV, SQL_NULL_HANDLE, &henv)))
\* Py_FatalError(...).  A handle the driver manager allocates is a new one; a
\* failed allocation stores the null handle.
EnvAllocHandle(t) ==
    /\ CanRun(t)
    /\ pc[t] = "env_alloc"
    /\ \E ok \in BOOLEAN :
          IF ok
          THEN /\ allocCount' = allocCount + 1
               /\ henv' = allocCount + 1
               /\ versionSet' = FALSE
               /\ envRet' = [envRet EXCEPT ![t] = "succeeded"]
               /\ pc' = [pc EXCEPT ![t] = "env_setver"]
               /\ gil' = t
               /\ UNCHANGED << proc, result, raised >>
          ELSE /\ henv' = SQL_NULL_HANDLE
               /\ envRet' = [envRet EXCEPT ![t] = "failed"]
               /\ FatalError(t)
               /\ UNCHANGED << allocCount, versionSet >>
    /\ UNCHANGED << pooling, dsns, initVars, dmPoolingSets, poolingReads, policyRead, nCalls,
                    op, args, req, bPooling, hseen, conn, dsVars >>

\* if (!SQL_SUCCEEDED(SQLSetEnvAttr(henv, SQL_ATTR_ODBC_VERSION, SQL_OV_ODBC3, ...)))
\* Py_FatalError(...); return true: back in the caller.
EnvSetVersion(t) ==
    /\ CanRun(t)
    /\ pc[t] = "env_setver"
    /\ \E ok \in BOOLEAN :
          IF ok
          THEN /\ versionSet' = TRUE
               /\ envRet' = [envRet EXCEPT ![t] = "succeeded"]
               /\ pc' = [pc EXCEPT ![t] = IF op[t] = "connect" THEN "construct" ELSE "ds_begin"]
               /\ gil' = t
               /\ UNCHANGED << proc, result, raised >>
          ELSE /\ envRet' = [envRet EXCEPT ![t] = "failed"]
               /\ FatalError(t)
               /\ UNCHANGED versionSet
    /\ UNCHANGED << pooling, dsns, initVars, henv, allocCount, dmPoolingSets, poolingReads, policyRead, nCalls,
                    op, args, req, bPooling, hseen, conn, dsVars >>

\* ------------------------------------------------------------ dataSources
SQL_SUCCEEDED(r) == r \in {"SQL_SUCCESS", "SQL_SUCCESS_WITH_INFO"}

\* What the driver manager may answer to SQLDataSourcesW with the enumeration
\* of `sources` at `cursor`: SQL_FETCH_FIRST restarts it, SQL_FETCH_NEXT goes on (and
\* restarts after the end was reported); any fetch may fail, and a failed one
\* posts a diagnostic record.
SQLDataSourcesW(sources, cursor, direction) ==
    LET start == IF direction = "SQL_FETCH_FIRST" THEN 0 ELSE cursor
    IN  { [ret |-> "SQL_ERROR", entry |-> NoBuf, cursor |-> cursor,
           diag |-> "[HY000] driver manager error"] }
        \cup
        IF start < Len(sources)
        THEN { [ret |-> r, entry |-> sources[start + 1], cursor |-> start + 1, diag |-> ""]
               : r \in {"SQL_SUCCESS", "SQL_SUCCESS_WITH_INFO"} }
        ELSE { [ret |-> "SQL_NO_DATA", entry |-> NoBuf, cursor |-> 0, diag |-> ""] }

\* PyDict_SetItem on a dict held as a set of <<key, value>> pairs.
PyDict_SetItem(d, k, v) == {e \in d : e[1] # k} \cup {<< k, v >>}

\* A thread calls pyodbc.dataSources().
CallDataSources(t) ==
    /\ CanRun(t)
    /\ pc[t] \in {"idle", "done"}
    /\ nCalls < MaxCalls
    /\ FirstCallsInOrder(t)
    /\ nCalls' = nCalls + 1
    /\ op' = [op EXCEPT ![t] = "dataSources"]
    /\ args' = [args EXCEPT ![t] = NoArgs]
    /\ pc' = [pc EXCEPT ![t] = "ds_ensure"]
    /\ gil' = t
    /\ FreshLocals(t)
    /\ UNCHANGED << pooling, dsns, initVars, envVars, proc, dmCursor >>

\* if (henv == SQL_NULL_HANDLE && !AllocateEnv()) return 0;
DsEnsure(t) ==
    /\ CanRun(t)
    /\ pc[t] = "ds_ensure"
    /\ pc' = [pc EXCEPT ![t] = IF henv = SQL_NULL_HANDLE THEN "env_read" ELSE "ds_begin"]
    /\ gil' = t
    /\ UNCHANGED << pooling, dsns, initVars, envVars, proc, nCalls, op, args, req, bPooling, envRet,
                    hseen, conn, result, raised, dsVars >>

\* result(PyDict_New()); nDirection = SQL_FETCH_FIRST; for (;;) { Py_BEGIN_ALLOW_THREADS
DsBegin(t) ==
    /\ CanRun(t)
    /\ pc[t] = "ds_begin"
    /\ dsDict' = [dsDict EXCEPT ![t] = {}]
    /\ nDirection' = [nDirection EXCEPT ![t] = "SQL_FETCH_FIRST"]
    /\ pc' = [pc EXCEPT ![t] = "ds_native"]
    /\ gil' = NoThread
    /\ UNCHANGED << pooling, dsns, initVars, envVars, proc, nCalls, op, args, req, bPooling, envRet,
                    hseen, conn, result, raised, dmCursor, ret, buf, fetchLog >>

\* ret = SQLDataSourcesW(henv, SQL_FETCH_NEXT, szDSN, ..., szDesc, ...), made
\* without the interpreter lock.
DsFetch(t) ==
    /\ proc = "running"
    /\ pc[t] = "ds_native"
    /\ hseen' = [hseen EXCEPT ![t] = henv]
    /\ \E o \in SQLDataSourcesW(dsns, dmCursor, "SQL_FETCH_NEXT") :
          /\ ret' = [ret EXCEPT ![t] = o.ret]
          /\ dmCursor' = o.cursor
          /\ buf' = [buf EXCEPT ![t] = IF SQL_SUCCEEDED(o.ret) THEN o.entry ELSE buf[t]]
          /\ fetchLog' = [fetchLog EXCEPT ![t] =
                             Append(@, [direction |-> "SQL_FETCH_NEXT", ret |-> o.ret,
                                        entry |-> o.entry, diag |-> o.diag])]
    /\ pc' = [pc EXCEPT ![t] = "ds_ret"]
    /\ UNCHANGED << pooling, dsns, initVars, envVars, proc, gil, nCalls, op, args, req, bPooling, envRet,
                    conn, result, raised, dsDict, nDirection >>

\* The bug of going round the loop again whatever the status.
DsReturn_NoBreak(t) ==
    /\ CanRun(t)
    /\ pc[t] = "ds_ret"
    /\ gil' = NoThread
    /\ IF ret[t] # "SQL_NO_DATA"
       THEN /\ dsDict' = [dsDict EXCEPT ![t] = PyDict_SetItem(dsDict[t], buf[t].name, buf[t].desc)]
            /\ nDirection' = [nDirection EXCEPT ![t] = "SQL_FETCH_NEXT"]
            /\ pc' = [pc EXCEPT ![t] = "ds_native"]
            /\ UNCHANGED << result, raised >>
       ELSE /\ result' = [result EXCEPT ![t] = "Mapping"]
            /\ raised' = [raised EXCEPT ![t] = NoExc]
            /\ pc' = [pc EXCEPT ![t] = "done"]
            /\ UNCHANGED << dsDict, nDirection >>
    /\ UNCHANGED << pooling, dsns, initVars, envVars, proc, nCalls, op, args, req, bPooling, envRet,
                    hseen, conn, dmCursor, ret, buf, fetchLog >>

\* Py_END_ALLOW_THREADS; if (!SQL_SUCCEEDED(ret)) break; if (PyDict_SetItem(...)
\* == -1) return 0; nDirection = SQL_FETCH_NEXT; } and after the loop:
\* if (ret != SQL_NO_DATA) return RaiseErrorFromHandle("SQLDataSources",
\* SQL_NULL_HANDLE, SQL_NULL_HANDLE); return result.Detach();
DsReturn(t) ==
    /\ CanRun(t)
    /\ pc[t] = "ds_ret"
    /\ gil' = NoThread
    /\ IF SQL_SUCCEEDED(ret[t])
       THEN \E stored \in BOOLEAN :
               IF stored
               THEN /\ dsDict' = [dsDict EXCEPT ![t] =
                                     PyDict_SetItem(dsDict[t], buf[t].name, buf[t].desc)]
                    /\ nDirection' = [nDirection EXCEPT ![t] = "SQL_FETCH_NEXT"]
                    /\ pc' = [pc EXCEPT ![t] = "ds_native"]
                    /\ UNCHANGED << result, raised >>
               ELSE /\ result' = [result EXCEPT ![t] = "MemoryError"]
                    /\ raised' = [raised EXCEPT ![t] = [cls |-> "MemoryError", text |-> ""]]
                    /\ pc' = [pc EXCEPT ![t] = "done"]
                    /\ UNCHANGED << dsDict, nDirection >>
       ELSE /\ IF ret[t] # "SQL_NO_DATA"
               THEN /\ result' = [result EXCEPT ![t] = "DatabaseError"]
                    /\ raised' = [raised EXCEPT ![t] =
                                     RaiseErrorFromHandle("SQLDataSources",
                                                          fetchLog[t][Len(fetchLog[t])].diag)]
               ELSE /\ result' = [result EXCEPT ![t] = "Mapping"]
                    /\ raised' = [raised EXCEPT ![t] = NoExc]
            /\ pc' = [pc EXCEPT ![t] = "done"]
            /\ UNCHANGED << dsDict, nDirection >>
    /\ UNCHANGED << pooling, dsns, initVars, envVars, proc, nCalls, op, args, req, bPooling, envRet,
                    hseen, conn, dmCursor, ret, buf, fetchLog >>

\* ----------------------------------------------------------- specifications
Next ==
    \/ \E v \in PoolingValues : SetPooling(v)
    \/ \E t \in Threads : CallConnect(t)
    \/ \E t \in Threads : ConnectBuild(t)
    \/ \E t \in Threads : ConnectEnsure(t)
    \/ \E t \in Threads : ConnectionNew(t)
    \/ \E t \in Threads : EnvReadPooling(t)
    \/ \E t \in Threads : EnvSetPooling(t)
    \/ \E t \in Threads : EnvAllocHandle(t)
    \/ \E t \in Threads : EnvSetVersion(t)
    \/ \E t \in Threads : CallDataSources(t)
    \/ \E t \in Threads : DsEnsure(t)
    \/ \E t \in Threads : DsBegin(t)
    \/ \E t \in Threads : DsFetch(t)
    \/ \E t \in Threads : DsReturn(t)

Spec == Init /\ [][Next]_vars

\* One call of connect, by thread 1, on a cold process.
InitBuild ==
    /\ pooling = "True"
    /\ henv = SQL_NULL_HANDLE
    /\ allocCount = 0
    /\ dmPoolingSets = 0
    /\ versionSet = FALSE
    /\ poolingReads = 0
    /\ policyRead = "unread"
    /\ proc = "running"
    /\ gil = 1
    /\ nCalls = 1
    /\ pc = [t \in Threads |-> IF t = 1 THEN "build" ELSE "idle"]
    /\ op = [t \in Threads |-> IF t = 1 THEN "connect" ELSE "none"]
    /\ \E a \in BuildInputs : args = [t \in Threads |-> IF t = 1 THEN a ELSE NoArgs]
    /\ req = [t \in Threads |-> InitLocals]
    /\ bPooling = [t \in Threads |-> FALSE]
    /\ envRet = [t \in Threads |-> "none"]
    /\ hseen = [t \in Threads |-> SQL_NULL_HANDLE]
    /\ conn = [t \in Threads |-> NoConn]
    /\ result = [t \in Threads |-> "none"]
    /\ dsns = OneSource
    /\ dmCursor = 0
    /\ ret = [t \in Threads |-> "none"]
    /\ buf = [t \in Threads |-> NoBuf]
    /\ dsDict = [t \in Threads |-> {}]
    /\ nDirection = [t \in Threads |-> "none"]
    /\ fetchLog = [t \in Threads |-> << >>]
    /\ raised = [t \in Threads |-> NoExc]
    /\ StartupDone

NextBuild ==
    \/ \E t \in Threads : ConnectBuild(t)
    \/ \E t \in Threads : ConnectEnsure(t)
    \/ \E t \in Threads : ConnectionNew(t)
    \/ \E t \in Threads : EnvReadPooling(t)
    \/ \E t \in Threads : EnvSetPooling(t)
    \/ \E t \in Threads : EnvAllocHandle(t)
    \/ \E t \in Threads : EnvSetVersion(t)

SpecBuild == InitBuild /\ [][NextBuild]_vars

\* ------------------------------------------------------- PyInit_pyodbc
\* What the host's locale module may answer.
LcValues ==
    { LcAbsent, LcNonText, LcText(<< >>), LcText(<< NUL >>), LcText(<< "." >>),
      LcText(<< "," >>), LcText(<< "E", "U" >>) }
Locales ==
    { LocaleUnavailable("import_fails"), LocaleUnavailable("localeconv_fails") }
    \cup [status : {"ok"},
          decimal_point : {LcAbsent, LcNonText, LcText(<< "." >>), LcText(<< "," >>),
                           LcText(<< "E", "U" >>)},
          thousands_sep : LcValues,
          currency_symbol : {LcAbsent, LcNonText, LcText(<< >>), LcText(<< "E" >>),
                             LcText(<< "E", "U" >>)}]

\* The process as the import of the module begins: the globals hold their
\* static initialisers.
InitStartup ==
    /\ ColdProcess
    /\ dsns = OneSource
    /\ ipc = "ErrorInit"
    /\ iExc = 1
    /\ locale \in Locales
    /\ chDecimal = "."
    /\ chGroupSeparator = ","
    /\ chCurrencySymbol = "$"
    /\ pending = "none"
    /\ excPtr = [n \in ExcNames |-> NullPtr]
    /\ excBase = [n \in ExcNames |-> "none"]
    /\ excRefs = [n \in ExcNames |-> 0]
    /\ ns = {}
    /\ initRet = "none"

\* ErrorInit(); the SQLWCHAR_SIZE test; PyType_Ready of the four types;
\* PyModule_Create.  A failure returns 0.
PyInit_Begin ==
    /\ ipc = "ErrorInit"
    /\ excPtr' = [n \in ExcNames |-> NullPtr]
    /\ \E ok \in BOOLEAN :
          IF ok
          THEN ipc' = "import_types" /\ UNCHANGED << pending, initRet >>
          ELSE ipc' = "failed" /\ pending' = "RuntimeError" /\ initRet' = "NULL"
    /\ UNCHANGED << runVars, iExc, locale, chDecimal, chGroupSeparator, chCurrencySymbol,
                    excBase, excRefs, ns >>

\* if (!import_types()) return 0;
PyInit_ImportTypes ==
    /\ ipc = "import_types"
    /\ \E ok \in BOOLEAN :
          IF ok
          THEN ipc' = "init_locale_info" /\ UNCHANGED << pending, initRet >>
          ELSE ipc' = "failed" /\ pending' = "RuntimeError" /\ initRet' = "NULL"
    /\ UNCHANGED << runVars, iExc, locale, chDecimal, chGroupSeparator, chCurrencySymbol,
                    excPtr, excBase, excRefs, ns >>

\* init_locale_info();
PyInit_Locale ==
    /\ ipc = "init_locale_info"
    /\ LET r == init_locale_info(locale,
                    [chDecimal |-> chDecimal, chGroupSeparator |-> chGroupSeparator,
                     chCurrencySymbol |-> chCurrencySymbol, pending |-> pending])
       IN  /\ chDecimal' = r.chDecimal
           /\ chGroupSeparator' = r.chGroupSeparator
           /\ chCurrencySymbol' = r.chCurrencySymbol
           /\ pending' = r.pending
    /\ ipc' = "CreateExceptions"
    /\ iExc' = 1
    /\ UNCHANGED << runVars, locale, excPtr, excBase, excRefs, ns, initRet >>

\* One pass of the loop of CreateExceptions, and, when it returns false,
\* if (!CreateExceptions()) return 0; in PyInit_pyodbc.
CreateExceptions ==
    /\ ipc = "CreateExceptions"
    /\ iExc <= Len(aExcInfos)
    /\ LET info == aExcInfos[iExc]
           parentPtr == IF info.parent = "Exception" THEN "Exception" ELSE excPtr[info.parent]
       IN  \E outcome \in {"classdict_fails", "doc_fails", "new_fails", "add_fails", "ok"} :
              CASE outcome \in {"classdict_fails", "doc_fails"} ->
                     /\ pending' = "MemoryError"
                     /\ ipc' = "failed"
                     /\ initRet' = "NULL"
                     /\ UNCHANGED << iExc, excPtr, excBase, excRefs, ns >>
                [] outcome = "new_fails" ->
                     /\ excPtr' = [excPtr EXCEPT ![info.szName] = NullPtr]
                     /\ pending' = "MemoryError"
                     /\ ipc' = "failed"
                     /\ initRet' = "NULL"
                     /\ UNCHANGED << iExc, excBase, excRefs, ns >>
                [] OTHER ->
                     /\ excPtr' = [excPtr EXCEPT ![info.szName] = info.szName]
                     /\ excBase' = [excBase EXCEPT ![info.szName] =
                                       IF parentPtr = NullPtr THEN "Exception" ELSE parentPtr]
                     /\ IF outcome = "ok"
                        THEN /\ excRefs' = [excRefs EXCEPT ![info.szName] = 1]
                             /\ ns' = ns \cup {info.szName}
                             /\ pending' = pending
                        ELSE /\ excRefs' = [excRefs EXCEPT ![info.szName] = 2]
                             /\ ns' = ns
                             /\ pending' = "MemoryError"
                     /\ iExc' = iExc + 1
                     /\ ipc' = IF iExc = Len(aExcInfos) THEN "constants" ELSE "CreateExceptions"
                     /\ UNCHANGED initRet
    /\ UNCHANGED << runVars, locale, chDecimal, chGroupSeparator, chCurrencySymbol >>

\* The PyModule_Add... calls after CreateExceptions: any of them may fail and
\* leave its exception pending; none is tested.
PyInit_AddConstants ==
    /\ ipc = "constants"
    /\ \E ok \in BOOLEAN : pending' = IF ok THEN pending ELSE "MemoryError"
    /\ ipc' = "return"
    /\ UNCHANGED << runVars, iExc, locale, chDecimal, chGroupSeparator, chCurrencySymbol,
                    excPtr, excBase, excRefs, ns, initRet >>

\* Py_XDECREF of each of the ten globals; the pointers are left as they are.
ErrorCleanup(ptr, refs) ==
    [n \in ExcNames |-> IF ptr[n] # NullPtr THEN refs[n] - 1 ELSE refs[n]]

\* if (PyErr_Occurred()) { ErrorCleanup(); return 0; } return pModule;
PyInit_Return ==
    /\ ipc = "return"
    /\ IF pending # "none"
       THEN /\ excRefs' = ErrorCleanup(excPtr, excRefs)
            /\ ipc' = "failed"
            /\ initRet' = "NULL"
       ELSE /\ ipc' = "done"
            /\ initRet' = "module"
            /\ UNCHANGED excRefs
    /\ UNCHANGED << runVars, iExc, locale, chDecimal, chGroupSeparator, chCurrencySymbol,
                    pending, excPtr, excBase, ns >>

NextStartup ==
    \/ PyInit_Begin
    \/ PyInit_ImportTypes
    \/ PyInit_Locale
    \/ CreateExceptions
    \/ PyInit_AddConstants
    \/ PyInit_Return

\* The import of the module.
SpecStartup == InitStartup /\ [][NextStartup]_vars

\* Calls of dataSources, by any thread, on a cold process.
InitDs == ColdProcess /\ dsns \in SourceConfigs /\ StartupDone

NextDs ==
    \/ \E t \in Threads : CallDataSources(t)
    \/ \E t \in Threads : DsEnsure(t)
    \/ \E t \in Threads : DsBegin(t)
    \/ \E t \in Threads : DsFetch(t)
    \/ \E t \in Threads : DsReturn(t)
    \/ \E t \in Threads : EnvReadPooling(t)
    \/ \E t \in Threads : EnvSetPooling(t)
    \/ \E t \in Threads : EnvAllocHandle(t)
    \/ \E t \in Threads : EnvSetVersion(t)

SpecDs == InitDs /\ [][NextDs]_vars

\* ------------------------------------------------------------------ claims
EnvPcs == {"env_read", "env_setpool", "env_alloc", "env_setver"}

\* C1: on a cold process, however the calls of the threads interleave, the
\* environment handle is allocated exactly once, and every call that goes on to
\* the connection constructor or to the data-source fetch does so with that
\* one handle.
C1_SingleAllocation ==
    /\ allocCount <= 1
    /\ henv # SQL_NULL_HANDLE => allocCount = 1
    /\ \A t \in Threads :
          (pc[t] \in {"construct", "ds_begin", "ds_native", "ds_ret"}
             \/ hseen[t] # SQL_NULL_HANDLE)
          => (allocCount = 1 /\ henv # SQL_NULL_HANDLE)
    /\ \A t \in Threads : hseen[t] # SQL_NULL_HANDLE => hseen[t] = henv
    /\ \A t, u \in Threads :
          (hseen[t] # SQL_NULL_HANDLE /\ hseen[u] # SQL_NULL_HANDLE) => hseen[t] = hseen[u]

\* The call that allocated the handle is still enumerating while another
\* thread's call has run to its end with the same handle.
C1_Witness ==
    \E t, u \in Threads :
        /\ t # u
        /\ envRet[t] = "succeeded" /\ pc[t] \in {"ds_native", "ds_ret"}
        /\ hseen[t] = henv
        /\ envRet[u] = "none" /\ pc[u] = "done" /\ hseen[u] = henv
        /\ allocCount = 1

C2_Inv ==
    /\ dmPoolingSets >= 1 => policyRead = "True"
    /\ (allocCount >= 1 /\ policyRead = "True") => dmPoolingSets >= 1

C2_Step ==
    dmPoolingSets' # dmPoolingSets
    => (/\ henv = SQL_NULL_HANDLE /\ allocCount = 0
        /\ henv' = SQL_NULL_HANDLE /\ allocCount' = 0)

\* C2: when the handle is created with the pooling flag True, the pooling
\* attribute is set before the handle is allocated; with any other flag it is
\* never set; and no step sets it once a handle has been allocated.
C2_PoolingBeforeHandle == [] C2_Inv /\ [][C2_Step]_vars

C2_Witness == allocCount = 1 /\ policyRead = "True" /\ dmPoolingSets = 1 /\ versionSet

C3_Inv ==
    /\ poolingReads <= 1
    /\ henv # SQL_NULL_HANDLE => poolingReads = 1

C3_Step ==
    /\ henv # SQL_NULL_HANDLE
       => UNCHANGED << henv, allocCount, dmPoolingSets, poolingReads, policyRead >>
    /\ (henv # SQL_NULL_HANDLE /\ versionSet) => UNCHANGED versionSet

\* C3: the pooling flag is read once, when the handle is created; once the
\* handle exists no call reads the flag again, and neither a call nor a change
\* of the flag alters the handle or the driver manager's pooling attribute.
C3_PolicyReadOnce == [] C3_Inv /\ [][C3_Step]_vars

\* The flag was changed after the handle was created, and a later connect is
\* about to construct its connection under the existing handle.
C3_Witness ==
    \E t \in Threads :
        /\ henv # SQL_NULL_HANDLE /\ versionSet
        /\ pooling # policyRead
        /\ pc[t] = "construct" /\ envRet[t] = "none"

C4_Inv ==
    \A t \in Threads :
        envRet[t] = "failed"
        => (proc = "fatal" /\ result[t] = "none" /\ pc[t] # "done" /\ ~conn[t].made)

C4_Step == proc = "fatal" => UNCHANGED vars

\* C4: a failed native call of AllocateEnv (pooling attribute, handle
\* allocation, interface version) leaves the process aborted: the call has no
\* result of any kind, and no step follows.
C4_FatalOnEnvFailure == [] C4_Inv /\ [][C4_Step]_vars

\* The interface-version attribute could not be set on the new handle.
C4_Witness ==
    \E t \in Threads :
        /\ envRet[t] = "failed" /\ proc = "fatal"
        /\ henv # SQL_NULL_HANDLE /\ ~versionSet

\* C5, as stated: a connect request has ensured the environment handle by the
\* time the builder has run.
C5_EnvBeforeBuilder ==
    \A t \in Threads :
        (op[t] = "connect" /\ pc[t] \notin {"idle", "build"}) => henv # SQL_NULL_HANDLE

C5_Inv ==
    /\ \A t \in Threads :
          (op[t] = "connect" /\ pc[t] \in EnvPcs \cup {"construct"})
          => (req[t].err = "" /\ Unicode_Size(req[t].cstring) > 0)
    /\ \A t \in Threads : pc[t] = "construct" => (henv # SQL_NULL_HANDLE /\ versionSet)
    /\ \A t \in Threads :
          conn[t].made
          => (/\ conn[t].henv = henv /\ henv # SQL_NULL_HANDLE
              /\ conn[t].cstring = req[t].cstring
              /\ conn[t].autocommit = (req[t].fAutoCommit # 0)
              /\ conn[t].timeout = req[t].timeout)

C5_Step ==
    \A t \in Threads :
        (pc[t] = "build" /\ pc'[t] # "build") => UNCHANGED envVars

\* C5, amended: a connect request runs the builder first, without touching the
\* environment, and ensures the handle only after the builder has produced a
\* non-empty string; that (string, autocommit, timeout) then goes to the
\* connection constructor together with the handle.
C5_BuilderBeforeEnv == [] C5_Inv /\ [][C5_Step]_vars

\* A connect built its string on a cold process, then created the handle, then
\* constructed its connection.
C5_Witness ==
    \E t \in Threads :
        /\ pc[t] = "done" /\ result[t] = "Connection"
        /\ envRet[t] = "succeeded" /\ conn[t].made


\* ---------------------------------------------- claims about the builder
\* The builder of thread t's connect call has returned a request.
Built(t) == op[t] = "connect" /\ pc[t] \notin {"idle", "build"} /\ req[t].err = ""

IsControl(k) == k \in {"autocommit", "timeout"}

\* The remap table as the specification gives it.
SpecKey(k) ==
    CASE k = "user" -> "uid"
      [] k = "password" -> "pwd"
      [] k = "host" -> "server"
      [] OTHER -> k

NonControl(kwargs) == SelectSeq(kwargs, LAMBDA e : ~IsControl(e.key))

RECURSIVE JoinSemi(_)
JoinSemi(ps) ==
    IF Len(ps) = 0 THEN ""
    ELSE IF Len(ps) = 1 THEN ps[1]
    ELSE ps[1] \o ";" \o JoinSemi(Tail(ps))

KwPieces(kwargs) ==
    [i \in 1..Len(NonControl(kwargs)) |->
        SpecKey(NonControl(kwargs)[i].key) \o "=" \o NonControl(kwargs)[i].value.s]

\* The inputs C6..C8 speak of: at most one positional argument, a text; every
\* keyword other than the two control keywords has a text value.
TextInputs(a) ==
    /\ Len(a.args) <= 1
    /\ \A i \in 1..Len(a.args) : a.args[i].tp = "str"
    /\ \A i \in 1..Len(a.kwargs) :
          ~IsControl(a.kwargs[i].key) => a.kwargs[i].value.tp = "str"

NoControls(a) == \A i \in 1..Len(a.kwargs) : ~IsControl(a.kwargs[i].key)

\* The pieces of the string when the positional string counts as a piece
\* whenever it is supplied ...
PiecesAsStated(a) ==
    (IF Len(a.args) = 1 THEN << a.args[1].s >> ELSE << >>) \o KwPieces(a.kwargs)

\* ... and when it counts only if it is not the empty text.
PiecesNonEmpty(a) ==
    (IF Len(a.args) = 1 /\ a.args[1].s # "" THEN << a.args[1].s >> ELSE << >>)
        \o KwPieces(a.kwargs)

C6_WitnessEmptyPositional ==
    \E t \in Threads :
        /\ Built(t) /\ NoControls(args[t])
        /\ Len(args[t].args) = 1 /\ args[t].args[1].s = ""
        /\ Len(args[t].kwargs) >= 1

\* C7: the fragments the builder emits are, in order, those of the keywords
\* other than the control keywords: the key is uid for user, pwd for password,
\* server for host and the supplied key otherwise (User, driver pass through),
\* and the value is the supplied text, unaltered.
C7_RemapExact ==
    \A t \in Threads :
        (op[t] = "connect" /\ pc[t] \notin {"idle", "build"})
        => LET nc == NonControl(args[t].kwargs)
               fr == req[t].frags
           IN  /\ Len(fr) <= Len(nc)
               /\ req[t].err = "" => Len(fr) = Len(nc)
               /\ \A i \in 1..Len(fr) :
                     /\ fr[i].key = SpecKey(nc[i].key)
                     /\ fr[i].value = nc[i].value.s

\* A string built from the keywords host and User.
C7_Witness ==
    \E t \in Threads :
        /\ Built(t)
        /\ Len(req[t].frags) = 2
        /\ {args[t].kwargs[i].key : i \in 1..Len(args[t].kwargs)} = {"host", "User"}
        /\ {req[t].frags[i].key : i \in 1..Len(req[t].frags)} = {"server", "User"}

HasKey(kwargs, k) == \E i \in 1..Len(kwargs) : kwargs[i].key = k

ValueOf(kwargs, k) == kwargs[CHOOSE i \in 1..Len(kwargs) : kwargs[i].key = k].value

Truthy(v) ==
    CASE v.tp = "str" -> v.s # ""
      [] v.tp = "int" -> v.n # 0
      [] v.tp = "bool" -> v.n = 1
      [] v.tp = "bigint" -> TRUE
      [] OTHER -> FALSE

\* C8: what a successful build hands to the connection constructor: a string
\* with the pieces of the other keywords only, whatever the values of
\* autocommit and timeout and wherever they stand; autocommit is the
\* truthiness of the autocommit value (false if absent), timeout the integer
\* value of timeout (0 if absent).
C8_ControlsExtracted ==
    \A t \in Threads :
        conn[t].made
        => LET kw == args[t].kwargs
           IN  /\ conn[t].cstring = JoinSemi(PiecesNonEmpty(args[t]))
               /\ \A i \in 1..Len(req[t].frags) : ~IsControl(req[t].frags[i].key)
               /\ conn[t].autocommit =
                     (IF HasKey(kw, "autocommit") THEN Truthy(ValueOf(kw, "autocommit")) ELSE FALSE)
               /\ conn[t].timeout =
                     (IF HasKey(kw, "timeout") THEN ValueOf(kw, "timeout").n ELSE 0)

\* A connection made from a positional string with autocommit=True, timeout=5.
C8_Witness ==
    \E t \in Threads :
        /\ result[t] = "Connection" /\ conn[t].made
        /\ HasKey(args[t].kwargs, "autocommit") /\ HasKey(args[t].kwargs, "timeout")
        /\ conn[t].autocommit /\ conn[t].timeout = 5
        /\ conn[t].cstring = "DSN=x"

AnsiFree(a) == [a EXCEPT !.kwargs = SelectSeq(a.kwargs, LAMBDA e : e.key # "ansi")]

\* C9: the keyword ansi is special and is not added to the connection string:
\* a call that passes it builds the string of the same call without it.
C9_AnsiNotAdded ==
    \A t \in Threads :
        (/\ op[t] = "connect" /\ pc[t] \notin {"idle", "build"}
         /\ HasKey(args[t].kwargs, "ansi")
         /\ TextInputs(AnsiFree(args[t])) /\ NoControls(args[t])
         /\ Len(PiecesNonEmpty(AnsiFree(args[t]))) > 0)
        => (/\ req[t].err = ""
            /\ req[t].cstring = JoinSemi(PiecesNonEmpty(AnsiFree(args[t]))))

\* The control keywords of a call have values the builder can coerce.
ControlsValid(a) ==
    \A i \in 1..Len(a.kwargs) :
        a.kwargs[i].key = "timeout" => a.kwargs[i].value.tp \in {"int", "bool"}

C11_ArgCountFirst ==
    \A t \in Threads :
        (op[t] = "connect" /\ pc[t] \notin {"idle", "build"} /\ Len(args[t].args) >= 2)
        => (/\ pc[t] = "done" /\ result[t] = "TooManyArguments"
            /\ req[t].err = "TooManyArguments"
            /\ req[t].frags = << >> /\ req[t].cstring = ""
            /\ req[t].fAutoCommit = 0 /\ req[t].timeout = 0
            /\ ~conn[t].made /\ henv = SQL_NULL_HANDLE)

\* Two positional arguments with a timeout that is no integer and a keyword
\* whose value is no text.
C11_Witness ==
    \E t \in Threads :
        /\ pc[t] = "done" /\ result[t] = "TooManyArguments"
        /\ Len(args[t].args) = 2
        /\ HasKey(args[t].kwargs, "timeout") /\ ValueOf(args[t].kwargs, "timeout").tp = "none"
        /\ HasKey(args[t].kwargs, "user") /\ ValueOf(args[t].kwargs, "user").tp = "int"

\* ------------------------------------------------ claims about start-up
\* This module owns a reference on class n.
Held(n) == excRefs[n] > 0

\* C12: start-up never ends, failed or finished, with only some of the ten
\* class references held: a failed pass of CreateExceptions releases every
\* class it constructed.
C12_NoPartialRegistration ==
    ipc \in {"failed", "done"}
    => ((\A n \in ExcNames : Held(n)) \/ (\A n \in ExcNames : ~Held(n)))

\* The parent relation as the specification gives it.
SpecParent(n) ==
    CASE n \in {"Error", "Warning"} -> "Exception"
      [] n \in {"InterfaceError", "DatabaseError"} -> "Error"
      [] OTHER -> "DatabaseError"

RECURSIVE IsA(_, _, _)
IsA(c, d, fuel) ==
    \/ c = d
    \/ /\ fuel > 0
       /\ c \in ExcNames
       /\ excBase[c] \in ExcNames
       /\ IsA(excBase[c], d, fuel - 1)

\* C13: every class is constructed with the parent the specification names,
\* and that parent has been constructed before it; after registration
\* Error and Warning are siblings under the root, InterfaceError and
\* DatabaseError are children of Error, and the other six are children of
\* DatabaseError.
C13_Hierarchy ==
    /\ \A n \in ExcNames :
          excPtr[n] # NullPtr
          => (/\ excBase[n] = SpecParent(n)
              /\ SpecParent(n) \in ExcNames => excPtr[SpecParent(n)] # NullPtr)
    /\ ipc = "done"
       => (/\ \A n \in ExcNames : excPtr[n] # NullPtr
           /\ ~IsA("Warning", "Error", 10) /\ ~IsA("Error", "Warning", 10)
           /\ IsA("InterfaceError", "Error", 10) /\ IsA("DatabaseError", "Error", 10)
           /\ ~IsA("InterfaceError", "DatabaseError", 10)
           /\ \A n \in {"DataError", "OperationalError", "IntegrityError", "InternalError",
                        "ProgrammingError", "NotSupportedError"} :
                 IsA(n, "DatabaseError", 10) /\ IsA(n, "Error", 10) /\ ~IsA(n, "Warning", 10))

\* Registration has finished with all ten classes in the namespace.
C13_Witness ==
    /\ ipc = "done" /\ ns = ExcNames
    /\ excBase["DataError"] = "DatabaseError" /\ excBase["Warning"] = "Exception"

\* init_locale_info has returned.
LocaleRan ==
    \/ ipc \in {"CreateExceptions", "constants", "return", "done"}
    \/ (ipc = "failed" /\ pending # "RuntimeError")

\* C14: with an empty or null group separator reported, the group separator
\* is the opposite of the decimal point.
C14_EmptyGroupOpposite ==
    (/\ LocaleRan /\ locale.status = "ok"
     /\ locale.thousands_sep \in {LcText(<< >>), LcText(<< NUL >>)})
    => chGroupSeparator = (IF chDecimal = "," THEN "." ELSE ",")

\* A reported value is a text of exactly one character.
OneCharText(v) == v.tp = "str" /\ Len(v.chars) = 1

C15_Inv ==
    LocaleRan
    => (/\ chDecimal = (IF locale.status = "ok" /\ OneCharText(locale.decimal_point)
                        THEN locale.decimal_point.chars[1] ELSE ".")
        /\ (locale.status = "ok" /\ OneCharText(locale.thousands_sep)
               /\ locale.thousands_sep.chars[1] # NUL)
           => chGroupSeparator = locale.thousands_sep.chars[1]
        /\ ~(locale.status = "ok" /\ OneCharText(locale.thousands_sep))
           => chGroupSeparator = ","
        /\ chCurrencySymbol = (IF locale.status = "ok" /\ OneCharText(locale.currency_symbol)
                               THEN locale.currency_symbol.chars[1] ELSE "$"))

C15_Step ==
    ipc = "init_locale_info"
    => (ipc' = "CreateExceptions" /\ pending' = "none" /\ initRet' = "none")

C15_WitnessValues ==
    /\ ipc = "done" /\ locale.status = "ok"
    /\ Len(locale.decimal_point.chars) = 2 /\ chDecimal = "."
    /\ chCurrencySymbol = "E"

\* ---------------------------------------------- claims about dataSources
\* The statuses the specification counts as success.
Succeeded(r) == r = "SQL_SUCCESS" \/ r = "SQL_SUCCESS_WITH_INFO"

\* The classes of the DatabaseError family.
DbFamily ==
    {"DatabaseError", "DataError", "OperationalError", "IntegrityError", "InternalError",
     "ProgrammingError", "NotSupportedError"}

\* C16: a call of dataSources makes no fetch after one that did not succeed;
\* when its fetches reported k sources of distinct names and then no more
\* data, it returns the mapping of exactly those k names to their
\* descriptions and raises nothing; when a fetch answered any other status,
\* it returns no mapping and raises a failure of the DatabaseError family
\* that carries the driver manager's diagnostic text, which is not empty.
C16_StopsAtNonSuccess ==
    \A t \in Threads :
        LET log == fetchLog[t]
            k == Len(log) - 1
        IN  /\ \A i \in 1..k : Succeeded(log[i].ret)
            /\ (op[t] = "dataSources" /\ pc[t] = "done" /\ result[t] # "MemoryError")
               => /\ Len(log) >= 1
                  /\ ~Succeeded(log[Len(log)].ret)
                  /\ IF log[Len(log)].ret = "SQL_NO_DATA"
                     THEN /\ result[t] = "Mapping" /\ raised[t].cls = "none"
                          /\ dsDict[t] = {<< log[i].entry.name, log[i].entry.desc >> : i \in 1..k}
                          /\ (\A i, j \in 1..k : i # j => log[i].entry.name # log[j].entry.name)
                             => Cardinality(dsDict[t]) = k
                     ELSE /\ result[t] # "Mapping"
                          /\ raised[t].cls \in DbFamily
                          /\ raised[t].text = log[Len(log)].diag
                          /\ raised[t].text # ""

\* Two sources were reported and then no more data.
C16_Witness ==
    \E t \in Threads :
        /\ pc[t] = "done" /\ result[t] = "Mapping"
        /\ Len(fetchLog[t]) = 3 /\ Cardinality(dsDict[t]) = 2

\* The second fetch failed after a first that reported a source.
C16_WitnessError ==
    \E t \in Threads :
        /\ pc[t] = "done" /\ result[t] = "DatabaseError"
        /\ Len(fetchLog[t]) = 2 /\ raised[t].text # ""

\* C17: the first fetch of every call of dataSources asks for the first
\* entry and the later ones for the next, so that a call that is answered a
\* source at its first fetch is answered the first configured one, wherever
\* an earlier call left the enumeration.
C17_StartsFromFirst ==
    \A t \in Threads :
        \A i \in 1..Len(fetchLog[t]) :
            /\ fetchLog[t][i].direction = (IF i = 1 THEN "SQL_FETCH_FIRST" ELSE "SQL_FETCH_NEXT")
            /\ (i = 1 /\ Succeeded(fetchLog[t][1].ret)) => fetchLog[t][1].entry = dsns[1]

\* ------------------------------------------- claims about failures, handle
C18_Inv ==
    \A t \in Threads :
        (op[t] = "connect" /\ pc[t] \notin {"idle", "build"} /\ req[t].err # "")
        => (/\ req[t].err \in {"TooManyArguments", "Arg1NotString", "ValueNotString",
                               "TimeoutNotInteger", "TimeoutOverflow", "NoConnectionInfo"}
            /\ pc[t] = "done"
            /\ raised[t].cls = (IF req[t].err = "TimeoutOverflow" THEN "OverflowError"
                                ELSE "TypeError")
            /\ raised[t].cls \notin ExcNames
            /\ ~conn[t].made /\ hseen[t] = SQL_NULL_HANDLE /\ envRet[t] = "none")

C18_Step ==
    \A t \in Threads :
        (pc[t] = "build" /\ pc'[t] = "done")
        => (/\ raised'[t].cls # "none"
            /\ UNCHANGED << pooling, henv, allocCount, dmPoolingSets, versionSet, poolingReads,
                            policyRead, proc, dmCursor, conn, initVars >>)

\* C18: every failure of the builder (argument count, non-text positional
\* argument, non-text keyword value, timeout that is no integer, empty
\* result) is raised as a TypeError (an OverflowError for a timeout too large
\* for a long), never as a class of the taxonomy, and the
\* failing call changes nothing outside itself: no handle, no native call, no
\* connection.
C18_BuilderFailuresGeneric == [] C18_Inv /\ [][C18_Step]_vars

\* A keyword with a non-text value was met after a fragment had been appended.
C18_Witness ==
    \E t \in Threads :
        /\ pc[t] = "done" /\ result[t] = "ValueNotString"
        /\ raised[t].cls = "TypeError"
        /\ Len(req[t].frags) = 1
        /\ henv = SQL_NULL_HANDLE

C19_Inv ==
    proc = "running"
    => \A t \in Threads :
          /\ pc[t] \in {"construct", "ds_begin", "ds_native", "ds_ret"}
             => (henv # SQL_NULL_HANDLE /\ versionSet)
          /\ conn[t].made => (conn[t].henv # SQL_NULL_HANDLE /\ conn[t].henv = henv /\ versionSet)
          /\ Len(fetchLog[t]) > 0 => (hseen[t] # SQL_NULL_HANDLE /\ hseen[t] = henv /\ versionSet)

C19_Step == henv # SQL_NULL_HANDLE => henv' = henv

\* C19: while the process has not aborted, the connection constructor and the
\* data-source fetch are reached only with a non-null handle on which the
\* interface version has been set, and a handle once set is never changed.
C19_HandleReady == [] C19_Inv /\ [][C19_Step]_vars

\* A fetch is under way on a handle an earlier call created, while another
\* thread's connect has constructed its connection on it.
C19_Witness ==
    \E t, u \in Threads :
        /\ t # u
        /\ pc[t] = "ds_ret" /\ envRet[t] = "none" /\ Len(fetchLog[t]) > 0
        /\ conn[u].made /\ conn[u].henv = henv
        /\ versionSet
====
